---- MODULE Spec2Model ----
(***************************************************************************)
(* Client script of the "Import Bank Transaction" form                     *)
(* (import_bank_transaction.js): the form's fields, the child table        *)
(* `transactions`, the two custom buttons, the field handler of            *)
(* camt53_folder, and the frappe.call requests with their callbacks.       *)
(*                                                                         *)
(* Strings the code inspects character by character (the folder, which is  *)
(* trimmed; the dates, which are compared as strings) are sequences of     *)
(* characters; strings the code only tests for emptiness or equality are   *)
(* TLA+ strings, "" being the empty (falsy) value.                         *)
(***************************************************************************)
EXTENDS Integers, Sequences, FiniteSets, TLC

VARIABLES
    refreshed,        \* the refresh handler has run: the custom buttons exist
    camt53_folder,    \* frm.doc.camt53_folder, a sequence of characters
    camt53_file,      \* frm.doc.camt53_file
    file_read_only,   \* df property read_only of camt53_file (0 or 1)
    from_date,        \* frm.doc.from_date, digits of "YYYY-MM-DD" or <<>>
    to_date,          \* frm.doc.to_date
    bank_account,     \* frm.doc.bank_account
    transactions,     \* frm.doc.transactions, the child table
    pending,          \* frappe.call requests awaiting their callback, in send order
    loaded,           \* response_data of the preview response loaded last
    handler,          \* the button handler or callback that ran last ("none": anything else)
    called,           \* the frappe.call that handler issued, or NoCall
    msgprint          \* the frappe.msgprint that handler showed, or NoMsg

vars == <<refreshed, camt53_folder, camt53_file, file_read_only, from_date,
          to_date, bank_account, transactions, pending, loaded, handler, called,
          msgprint>>

doc == <<camt53_folder, camt53_file, file_read_only, from_date, to_date,
         bank_account, transactions>>

-----------------------------------------------------------------------------
(* Bounds *)

\* Requests that may await their callback at the same time.
MaxPending == 2

-----------------------------------------------------------------------------
(* Values *)

NoCall == [method |-> "none"]
NoMsg  == [title |-> "none"]

\* Folder values a user types: nothing, only whitespace, a path.
Folders == { <<>>, <<" ">>, <<"d", "i", "r">> }
Files   == { "", "/files/stmt.xml" }

\* Dates as the digits of the framework's "YYYY-MM-DD" strings (the hyphens
\* stand at the same places in every date and never decide a comparison).
NoDate == <<>>
Jan1   == <<2, 0, 2, 5, 0, 1, 0, 1>>
Feb1   == <<2, 0, 2, 5, 0, 2, 0, 1>>
Dates  == { NoDate, Jan1, Feb1 }

Accounts == { "", "ACC-A" }

\* JS String.prototype.trim on a sequence of characters.
RECURSIVE TrimLeft(_)
TrimLeft(s) ==
    IF s # <<>> /\ Head(s) = " " THEN TrimLeft(Tail(s)) ELSE s

RECURSIVE TrimRight(_)
TrimRight(s) ==
    IF s # <<>> /\ s[Len(s)] = " " THEN TrimRight(SubSeq(s, 1, Len(s) - 1)) ELSE s

Trim(s) == TrimRight(TrimLeft(s))

\* JS `a > b` on two strings: lexicographic by character.
RECURSIVE StrGT(_, _)
StrGT(a, b) ==
    IF a = <<>> THEN FALSE
    ELSE IF b = <<>> THEN TRUE
    ELSE IF Head(a) # Head(b) THEN Head(a) > Head(b)
    ELSE StrGT(Tail(a), Tail(b))

\* Mutant of FolderGiven: the folder is not trimmed.
FolderGivenUntrimmed(folder) == folder # <<>>

\* `frm.doc.camt53_folder && frm.doc.camt53_folder.trim()` as a condition.
FolderGiven(folder) == folder # <<>> /\ Trim(folder) # <<>>

\* Mutant of DateRangeInverted: >= in place of >.
DateRangeInvertedOrEqual(f, t) == f # <<>> /\ t # <<>> /\ ~StrGT(t, f)

\* `frm.doc.from_date && frm.doc.to_date && frm.doc.from_date > frm.doc.to_date`
DateRangeInverted(f, t) == f # <<>> /\ t # <<>> /\ StrGT(f, t)

-----------------------------------------------------------------------------
(* The child table *)

\* What the server's preview returns for one statement entry (response_data.transactions[i]).
Txn(date, deposit, withdrawal, description, ref, currency, bt, ptype, party) ==
    [date |-> date, deposit |-> deposit, withdrawal |-> withdrawal,
     description |-> description, reference_number |-> ref, currency |-> currency,
     bank_transaction |-> bt, party_type |-> ptype, party |-> party]

\* Entries a preview may return: an entry with a reference, a party and its
\* type, an entry with no reference and a party without its type, an entry
\* already in the ledger, a second entry with no reference.
TxnA == Txn(Jan1, 100, 0, "invoice", "REF-1", "CHF", "", "Customer", "P-1")
TxnC == Txn(Jan1, 0, 70, "cash", "", "CHF", "", "", "P-1")
TxnD == Txn(Feb1, 30, 0, "rent", "REF-2", "CHF", "BT-OLD", "Supplier", "P-2")
TxnE == Txn(Feb1, 20, 0, "refund", "", "CHF", "", "Customer", "P-1")

\* Mutant of clear_table: the rows stay.
clear_table_kept(rows) == rows

\* frm.clear_table('transactions')
clear_table(rows) == <<>>

\* frm.add_child('transactions'): a new row at the end, idx its position,
\* no field set and not checked.
add_child(rows) ==
    Append(rows, [idx |-> Len(rows) + 1, date |-> NoDate, deposit |-> 0,
                  withdrawal |-> 0, description |-> "", reference_number |-> "",
                  currency |-> "", bank_transaction |-> "", party_type |-> "",
                  party |-> "", checked |-> 0])

\* The body of the forEach of populate_transaction_table for one entry d.
FillChild(rows, d) ==
    LET n == Len(rows)
        copied == [rows[n] EXCEPT !.date = d.date,
                                  !.deposit = d.deposit,
                                  !.withdrawal = d.withdrawal,
                                  !.description = d.description,
                                  !.reference_number = d.reference_number,
                                  !.currency = d.currency,
                                  !.bank_transaction = d.bank_transaction]
    IN  [rows EXCEPT ![n] =
            IF d.party_type # "" /\ d.party # ""
            THEN [copied EXCEPT !.party_type = d.party_type, !.party = d.party]
            ELSE copied]

RECURSIVE AddChildren(_, _)
AddChildren(rows, ds) ==
    IF ds = <<>> THEN rows
    ELSE AddChildren(FillChild(add_child(rows), Head(ds)), Tail(ds))

\* Mutant of AutoCheck: the test of bank_transaction is inverted.
AutoCheckLinked(rows) ==
    [i \in DOMAIN rows |->
        IF rows[i].bank_transaction # "" THEN [rows[i] EXCEPT !.checked = 1]
        ELSE rows[i]]

\* Mutant of AutoCheck: every row is checked.
AutoCheckAll(rows) == [i \in DOMAIN rows |-> [rows[i] EXCEPT !.checked = 1]]

\* "Automatically check rows that don't have an existing transaction"
AutoCheck(rows) ==
    [i \in DOMAIN rows |->
        IF rows[i].bank_transaction = "" THEN [rows[i] EXCEPT !.checked = 1]
        ELSE rows[i]]

\* The table populate_transaction_table leaves.
PopulatedTable(rows, response_data) ==
    AutoCheck(AddChildren(clear_table(rows), response_data.transactions))

\* Mutant of PopulatedAccount: the field is set whether or not an account
\* was detected.
PopulatedAccountAlways(account, response_data) == response_data.bank_account

\* The bank account populate_transaction_table leaves.
PopulatedAccount(account, response_data) ==
    IF response_data.bank_account # "" THEN response_data.bank_account ELSE account

\* Mutant of Checked: the filter stops at the first checked row.
CheckedFirstOnly(rows) ==
    LET at == { i \in DOMAIN rows : rows[i].checked # 0 }
    IN  IF at = {} THEN <<>> ELSE << rows[CHOOSE i \in at : \A j \in at : i <= j] >>

\* Array.prototype.filter(d => d.__checked): the checked rows, in table order.
RECURSIVE Checked(_)
Checked(rows) ==
    IF rows = <<>> THEN <<>>
    ELSE IF Head(rows).checked # 0 THEN <<Head(rows)>> \o Checked(Tail(rows))
    ELSE Checked(Tail(rows))

\* Mutant of InvalidRows: only the first selected row is looked at.
InvalidRowsFirstOnly(selected) ==
    IF selected # <<>> /\ Head(selected).party = "" THEN <<Head(selected).idx>> ELSE <<>>

\* invalid_rows of the Create Bank Transactions handler.
RECURSIVE InvalidRows(_)
InvalidRows(selected) ==
    IF selected = <<>> THEN <<>>
    ELSE IF Head(selected).party = "" THEN <<Head(selected).idx>> \o InvalidRows(Tail(selected))
    ELSE InvalidRows(Tail(selected))

\* Array.prototype.find(d => d.reference_number === ref): the first such row, 0 if none.
FindByReference(rows, ref) ==
    LET hits == { i \in DOMAIN rows : rows[i].reference_number = ref }
    IN  IF hits = {} THEN 0 ELSE CHOOSE i \in hits : \A j \in hits : i <= j

\* The forEach over r.message.created_docs of the create callback.
RECURSIVE Backfill(_, _)
Backfill(rows, created_docs) ==
    IF created_docs = <<>> THEN rows
    ELSE LET c == Head(created_docs)
             i == FindByReference(rows, c.reference_number)
         IN  Backfill(IF i = 0 THEN rows
                      ELSE [rows EXCEPT ![i].bank_transaction = c.doc_name],
                      Tail(created_docs))

\* Mutant of UncheckAll: the rows stay checked.
UncheckNone(rows) == rows

\* "Uncheck all rows in the table"
UncheckAll(rows) == [i \in DOMAIN rows |-> [rows[i] EXCEPT !.checked = 0]]

-----------------------------------------------------------------------------
(* toggle_file_field_based_on_folder *)

ToggledReadOnly(folder) == IF FolderGiven(folder) THEN 1 ELSE 0

\* Mutant of ToggledFile: the file is not cleared.
ToggledFileKept(folder, file) == file

ToggledFile(folder, file) ==
    IF FolderGiven(folder) /\ file # "" THEN "" ELSE file

\* The function, run on a form whose folder field holds `folder`.
toggle_file_field_based_on_folder(folder) ==
    /\ file_read_only' = ToggledReadOnly(folder)
    /\ camt53_file' = ToggledFile(folder, camt53_file)

-----------------------------------------------------------------------------
(* The server, as far as the script depends on it *)

\* The statements a preview may return: no entry, an entry already in the
\* ledger, a new entry with a reference, two entries without reference.
PreviewTables == { <<>>, <<TxnD>>, <<TxnA>>, <<TxnC, TxnE>> }

\* r.message of process_camt53_file and process_folder_files: the detected
\* account (possibly none) and the entries.  Its processing_summary only words
\* the message shown after the table is loaded and is left out.
PreviewResponses ==
    [bank_account : Accounts, transactions : PreviewTables]

\* The name of the ledger record created for the row sent with index idx.
DocNames == <<"BT-NEW-1", "BT-NEW-2", "BT-NEW-3", "BT-NEW-4">>
DocName(idx) == DocNames[idx]

\* The orders in which the members of S can be listed.
Orders(S) ==
    { p \in [1..Cardinality(S) -> S] : \A i, j \in DOMAIN p : p[i] = p[j] => i = j }

\* What the response to a create request depends on: which rows were sent.
SentRows(selected) ==
    [i \in DOMAIN selected |->
        [idx |-> selected[i].idx, reference_number |-> selected[i].reference_number]]

\* The sets of sent rows the server may create: it may skip any row, and it
\* re-checks the reference before each creation, so it creates no two rows with
\* the same non-empty reference.  (Without reference it matches on date and
\* amounts, which differ between the entries of the statements above.)
Creatable(sent) ==
    { S \in SUBSET DOMAIN sent :
        \A a, b \in S :
            (a # b /\ sent[a].reference_number # "") =>
                sent[a].reference_number # sent[b].reference_number }

\* created_docs of create_bank_transactions for the rows `sent`: one
\* {reference_number, doc_name} per created row, in an order of the server's
\* choosing.
CreatedDocs(sent) ==
    { [k \in DOMAIN p |-> [reference_number |-> sent[p[k]].reference_number,
                           doc_name |-> DocName(sent[p[k]].idx)]] :
        p \in UNION { Orders(S) : S \in Creatable(sent) } }

-----------------------------------------------------------------------------
(* Initial state: a document is loaded into the form, refresh has not run *)

Init ==
    /\ refreshed = FALSE
    /\ camt53_folder \in Folders
    /\ camt53_file \in Files
    /\ file_read_only = 0
    /\ from_date \in Dates
    /\ to_date \in Dates
    /\ bank_account \in Accounts
    /\ transactions = <<>>
    /\ pending = <<>>
    /\ loaded = [bank_account |-> "", transactions |-> <<>>]
    /\ handler = "none"
    /\ called = NoCall
    /\ msgprint = NoMsg

-----------------------------------------------------------------------------
(* Handlers *)

\* A step that sends nothing, shows nothing and loads no preview.
Quiet(h) ==
    /\ handler' = h
    /\ called' = NoCall
    /\ msgprint' = NoMsg
    /\ loaded' = loaded

\* refresh: the buttons are (re)built and the file field is toggled.
Refresh ==
    /\ refreshed' = TRUE
    /\ toggle_file_field_based_on_folder(camt53_folder)
    /\ Quiet("none")
    /\ UNCHANGED <<camt53_folder, from_date, to_date, bank_account, transactions, pending>>

\* The user edits camt53_folder; its field handler runs.
SetFolder(v) ==
    /\ refreshed
    /\ v # camt53_folder
    /\ camt53_folder' = v
    /\ toggle_file_field_based_on_folder(v)
    /\ Quiet("camt53_folder")
    /\ UNCHANGED <<refreshed, from_date, to_date, bank_account, transactions, pending>>

\* The user attaches or removes the file; a read-only field takes no edit.
SetFile(v) ==
    /\ refreshed
    /\ file_read_only = 0
    /\ v # camt53_file
    /\ camt53_file' = v
    /\ Quiet("none")
    /\ UNCHANGED <<refreshed, camt53_folder, file_read_only, from_date, to_date,
                   bank_account, transactions, pending>>

SetFromDate(v) ==
    /\ refreshed
    /\ v # from_date
    /\ from_date' = v
    /\ Quiet("none")
    /\ UNCHANGED <<refreshed, camt53_folder, camt53_file, file_read_only, to_date,
                   bank_account, transactions, pending>>

SetToDate(v) ==
    /\ refreshed
    /\ v # to_date
    /\ to_date' = v
    /\ Quiet("none")
    /\ UNCHANGED <<refreshed, camt53_folder, camt53_file, file_read_only, from_date,
                   bank_account, transactions, pending>>

\* The user ticks or unticks the checkbox of row i of the grid.
ToggleRow(i) ==
    /\ refreshed
    /\ i \in DOMAIN transactions
    /\ transactions' = [transactions EXCEPT ![i].checked = 1 - @]
    /\ Quiet("none")
    /\ UNCHANGED <<refreshed, camt53_folder, camt53_file, file_read_only, from_date,
                   to_date, bank_account, pending>>

\* The user sets or clears the party of row i.
SetParty(i, v) ==
    /\ refreshed
    /\ i \in DOMAIN transactions
    /\ v # transactions[i].party
    /\ transactions' = [transactions EXCEPT ![i].party = v]
    /\ Quiet("none")
    /\ UNCHANGED <<refreshed, camt53_folder, camt53_file, file_read_only, from_date,
                   to_date, bank_account, pending>>

\* The user sets or clears the party type of row i.
SetPartyType(i, v) ==
    /\ refreshed
    /\ i \in DOMAIN transactions
    /\ v # transactions[i].party_type
    /\ transactions' = [transactions EXCEPT ![i].party_type = v]
    /\ Quiet("none")
    /\ UNCHANGED <<refreshed, camt53_folder, camt53_file, file_read_only, from_date,
                   to_date, bank_account, pending>>

\* frappe.call: the request is on its way and its callback is outstanding.
\* `called` keeps the request as issued; `pending` keeps, per outstanding
\* callback, the method and (for a create request) the rows sent, which is all
\* the response depends on, and whether those rows are still the rows of the
\* table (in_table: the row objects of a table are discarded by clear_table).
Send(call) ==
    /\ pending' = Append(pending,
                     IF call.method = "create_bank_transactions"
                     THEN [method |-> call.method, sent |-> SentRows(call.args.transactions),
                           in_table |-> TRUE]
                     ELSE [method |-> call.method, overtaken |-> FALSE])
    /\ called' = call

\* process_single_file
process_single_file ==
    IF DateRangeInverted(from_date, to_date)
    THEN /\ msgprint' = [title |-> "Error", message |-> "From Date cannot be after To Date."]
         /\ called' = NoCall
         /\ UNCHANGED pending
    ELSE /\ Send([method |-> "process_camt53_file",
                  args |-> [file_url |-> camt53_file, from_date |-> from_date,
                            to_date |-> to_date]])
         /\ msgprint' = NoMsg

\* process_folder_files
process_folder_files ==
    IF DateRangeInverted(from_date, to_date)
    THEN /\ msgprint' = [title |-> "Error", message |-> "From Date cannot be after To Date."]
         /\ called' = NoCall
         /\ UNCHANGED pending
    ELSE /\ Send([method |-> "process_folder_files",
                  args |-> [folder_path |-> camt53_folder, from_date |-> from_date,
                            to_date |-> to_date, bank_account |-> bank_account]])
         /\ msgprint' = NoMsg

\* The 'Preview Transactions' button.
PreviewClick ==
    /\ refreshed
    /\ Len(pending) < MaxPending
    /\ handler' = "Preview Transactions"
    /\ IF FolderGiven(camt53_folder) THEN process_folder_files
       ELSE IF camt53_file # "" THEN process_single_file
       ELSE /\ msgprint' = [title |-> "Error", message |-> "Please attach a CAMT.053 XML file OR enter a folder path/cloud storage URL."]
            /\ called' = NoCall
            /\ UNCHANGED pending
    /\ UNCHANGED <<refreshed, camt53_folder, camt53_file, file_read_only, from_date,
                   to_date, bank_account, transactions, loaded>>

\* The 'Create Bank Transactions' button.
CreateClick ==
    /\ refreshed
    /\ Len(pending) < MaxPending
    /\ handler' = "Create Bank Transactions"
    /\ LET selected_transactions == Checked(transactions)
           invalid_rows == InvalidRows(selected_transactions)
       IN  IF Len(selected_transactions) = 0
           THEN /\ msgprint' = [title |-> "Message", message |-> "Please select at least one transaction to create."]
                /\ called' = NoCall
                /\ UNCHANGED pending
           ELSE IF Len(invalid_rows) > 0
           THEN /\ msgprint' = [title |-> "Missing Party", rows |-> invalid_rows]
                /\ called' = NoCall
                /\ UNCHANGED pending
           ELSE /\ Send([method |-> "create_bank_transactions",
                         args |-> [transactions |-> selected_transactions,
                                   bank_account |-> bank_account]])
                /\ msgprint' = NoMsg
    /\ UNCHANGED <<refreshed, camt53_folder, camt53_file, file_read_only, from_date,
                   to_date, bank_account, transactions, loaded>>

-----------------------------------------------------------------------------
(* Callbacks *)

Remove(s, k) == SubSeq(s, 1, k - 1) \o SubSeq(s, k + 1, Len(s))

\* The outstanding requests once frm.clear_table has discarded the rows of the
\* table: the rows sent with a create request are no longer in the table.
RowsDiscarded(reqs) ==
    [j \in DOMAIN reqs |->
        IF reqs[j].method = "create_bank_transactions"
        THEN [reqs[j] EXCEPT !.in_table = FALSE]
        ELSE reqs[j]]

\* The outstanding requests once the response of request k has been loaded
\* into the table: a preview requested before k whose response is still to come
\* has been overtaken by a later one.
Overtaken(reqs, k) ==
    [j \in DOMAIN reqs |->
        IF j < k /\ reqs[j].method # "create_bank_transactions"
        THEN [reqs[j] EXCEPT !.overtaken = TRUE]
        ELSE reqs[j]]

\* populate_transaction_table(frm, response_data)
populate_transaction_table(response_data) ==
    /\ bank_account' = PopulatedAccount(bank_account, response_data)
    /\ transactions' = PopulatedTable(transactions, response_data)

\* The callback of a preview request (either method) with r.message set.
PreviewCallback(k, response_data) ==
    /\ k \in DOMAIN pending
    /\ pending[k].method \in {"process_camt53_file", "process_folder_files"}
    /\ pending' = RowsDiscarded(Remove(Overtaken(pending, k), k))
    /\ populate_transaction_table(response_data)
    /\ loaded' = response_data
    /\ handler' = "populate_transaction_table"
    /\ called' = NoCall
    /\ msgprint' = [title |-> "Success"]
    /\ UNCHANGED <<refreshed, camt53_folder, camt53_file, file_read_only, from_date, to_date>>

\* The callback of the create request with r.message set.
CreateCallback(k, created_docs) ==
    /\ k \in DOMAIN pending
    /\ pending[k].method = "create_bank_transactions"
    /\ pending' = Remove(pending, k)
    /\ transactions' = UncheckAll(Backfill(transactions, created_docs))
    /\ toggle_file_field_based_on_folder(camt53_folder)    \* frm.refresh()
    /\ handler' = "create_bank_transactions.callback"
    /\ called' = NoCall
    /\ msgprint' = [title |-> "Success"]
    /\ UNCHANGED <<refreshed, camt53_folder, from_date, to_date, bank_account, loaded>>

\* A response without r.message (or a failed request): the callback does nothing.
EmptyCallback(k) ==
    /\ k \in DOMAIN pending
    /\ pending' = Remove(pending, k)
    /\ Quiet("none")
    /\ UNCHANGED <<refreshed, camt53_folder, camt53_file, file_read_only, from_date,
                   to_date, bank_account, transactions>>

\* A review session: a new document with a file attached and no date range;
\* the user previews, edits rows and commits, and leaves the source as it is.
InitReview ==
    /\ Init
    /\ from_date = NoDate
    /\ to_date = NoDate
    /\ camt53_folder = <<>>
    /\ camt53_file # ""
    /\ bank_account = ""

Next ==
    \/ Refresh
    \/ \E i \in DOMAIN transactions : ToggleRow(i)
    \/ \E i \in DOMAIN transactions, v \in {"", "P-1"} : SetParty(i, v)
    \/ \E i \in DOMAIN transactions, v \in {"", "Customer"} : SetPartyType(i, v)
    \/ PreviewClick
    \/ CreateClick
    \/ \E k \in 1..MaxPending, r \in PreviewResponses : PreviewCallback(k, r)
    \/ \E k \in 1..MaxPending :
          \E c \in CreatedDocs(IF k \in DOMAIN pending /\ pending[k].method = "create_bank_transactions"
                               THEN pending[k].sent ELSE <<>>) :
             CreateCallback(k, c)
    \/ \E k \in 1..MaxPending : EmptyCallback(k)

Spec == InitReview /\ [][Next]_vars

\* Choosing the source and the date range: the user edits the form's fields and
\* previews; rows are not edited and nothing is committed.
NextSource ==
    \/ Refresh
    \/ \E v \in Folders : SetFolder(v)
    \/ \E v \in Files : SetFile(v)
    \/ \E v \in Dates : SetFromDate(v)
    \/ \E v \in Dates : SetToDate(v)
    \/ PreviewClick
    \/ \E k \in 1..MaxPending, r \in PreviewResponses : PreviewCallback(k, r)
    \/ \E k \in 1..MaxPending : EmptyCallback(k)

SourceSpec == Init /\ [][NextSource]_vars

-----------------------------------------------------------------------------
(* Properties *)

\* The positions of the checked rows, and of those among them without a party.
CheckedAt(rows) == { i \in DOMAIN rows : rows[i].checked # 0 }
MissingPartyAt(rows) == { i \in CheckedAt(rows) : rows[i].party = "" }

Range(seq) == { seq[k] : k \in DOMAIN seq }

\* The step is a click on 'Create Bank Transactions'.
CreateClicked == handler' = "Create Bank Transactions"
\* The step is a click on 'Preview Transactions'.
PreviewClicked == handler' = "Preview Transactions"

\* C1: a click on 'Create Bank Transactions' with at least one checked row
\* without party sends no request (the outstanding requests stay as they are),
\* leaves the table unchanged and reports exactly the idx of the checked rows
\* without party, once each; with some row checked and no checked row without
\* party the request is sent, whatever the unchecked rows hold.
C1_MissingPartyRejectsWholeCommit ==
    [][CreateClicked =>
        /\ MissingPartyAt(transactions) # {} =>
              /\ called' = NoCall
              /\ pending' = pending
              /\ transactions' = transactions
              /\ msgprint'.title = "Missing Party"
              /\ Range(msgprint'.rows) = { transactions[i].idx : i \in MissingPartyAt(transactions) }
              /\ Len(msgprint'.rows) = Cardinality(MissingPartyAt(transactions))
        /\ (CheckedAt(transactions) # {} /\ MissingPartyAt(transactions) = {}) =>
              /\ called'.method = "create_bank_transactions"
              /\ Len(pending') = Len(pending) + 1
      ]_vars

\* C1 witness: the commit was rejected for one checked row without party while
\* another checked row has its party.
C1_Witness ==
    /\ handler = "Create Bank Transactions"
    /\ msgprint.title = "Missing Party"
    /\ called = NoCall
    /\ \E i \in CheckedAt(transactions) : transactions[i].party # ""
    /\ Len(msgprint.rows) = 1

\* C2: every row of a create_bank_transactions request has a party and a
\* party type.
C2_SentRowsHavePartyAndType ==
    called.method = "create_bank_transactions" =>
        \A k \in DOMAIN called.args.transactions :
            /\ called.args.transactions[k].party # ""
            /\ called.args.transactions[k].party_type # ""

\* The calendar: a date's digits read as the number YYYYMMDD.
RECURSIVE DateNumber(_)
DateNumber(d) ==
    IF d = <<>> THEN 0 ELSE 10 * DateNumber(SubSeq(d, 1, Len(d) - 1)) + d[Len(d)]

\* Both bounds are present and from_date is the later day.
InvertedRange(f, t) == f # NoDate /\ t # NoDate /\ DateNumber(f) > DateNumber(t)

\* The folder holds a character that is not a blank.
NonBlank(folder) == \E i \in DOMAIN folder : folder[i] # " "

\* C3: a click on 'Preview Transactions' with a source given (either path)
\* sends a request if and only if the date range is not inverted; on an
\* inverted range nothing is sent and the table and bank_account stay.
C3_InvertedRangeRejectsPreview ==
    [][(PreviewClicked /\ (NonBlank(camt53_folder) \/ camt53_file # "")) =>
        /\ (called' # NoCall) <=> ~InvertedRange(from_date, to_date)
        /\ (called' # NoCall) => Len(pending') = Len(pending) + 1
        /\ InvertedRange(from_date, to_date) =>
              /\ pending' = pending
              /\ transactions' = transactions
              /\ bank_account' = bank_account
              /\ msgprint'.title = "Error"
      ]_vars

\* C3 witness: the folder path rejected an inverted range with rows in the table.
C3_Witness ==
    /\ handler = "Preview Transactions"
    /\ NonBlank(camt53_folder)
    /\ from_date = Feb1 /\ to_date = Jan1
    /\ called = NoCall
    /\ transactions # <<>>

\* C4: right after populate_transaction_table a row is checked if and only if
\* it has no bank_transaction.
C4_CheckedIffNoLedgerMatch ==
    handler = "populate_transaction_table" =>
        \A i \in DOMAIN transactions :
            (transactions[i].checked # 0) <=> (transactions[i].bank_transaction = "")

\* C4 witness: a preview was loaded with a row already in the ledger, and the
\* row is not checked.
C4_Witness ==
    /\ handler = "populate_transaction_table"
    /\ \E i \in DOMAIN transactions :
          transactions[i].bank_transaction # "" /\ transactions[i].checked = 0

\* C5 (as claimed): no row of a create_bank_transactions request has its
\* bank_transaction set.
C5_LinkedRowNeverSent ==
    called.method = "create_bank_transactions" =>
        \A k \in DOMAIN called.args.transactions :
            called.args.transactions[k].bank_transaction = ""

\* C5 (amended): a row with its bank_transaction set is checked only by the
\* user: whenever such a row is checked after a step, it had the same link
\* before the step and was either checked already or has just been ticked by
\* hand; and every row of a request is a row that was checked at the click.
C5_LinkedRowSentOnlyIfTickedByHand ==
    [][/\ \A i \in DOMAIN transactions' :
            (transactions'[i].checked # 0 /\ transactions'[i].bank_transaction # "") =>
                /\ i \in DOMAIN transactions
                /\ transactions[i].bank_transaction = transactions'[i].bank_transaction
                /\ \/ transactions[i].checked # 0
                   \/ /\ handler' = "none"
                      /\ transactions' = [transactions EXCEPT ![i].checked = 1]
       /\ (CreateClicked /\ called' # NoCall) =>
            Range(called'.args.transactions) \subseteq
                { transactions[i] : i \in CheckedAt(transactions) }
      ]_vars

\* C5 witness: a request holds a row whose bank_transaction is set.
C5_Witness ==
    /\ called.method = "create_bank_transactions"
    /\ \E k \in DOMAIN called.args.transactions :
          called.args.transactions[k].bank_transaction # ""

\* C6: right after a create request is sent, for every response the server
\* may give to it, the table after the backfill is the same for every order of
\* created_docs, and every created row carries the doc_name created for it.
C6_BackfillOrderIndependent ==
    (handler = "Create Bank Transactions" /\ called # NoCall) =>
        \A c \in CreatedDocs(pending[Len(pending)].sent) :
            /\ \A c2 \in CreatedDocs(pending[Len(pending)].sent) :
                  Range(c2) = Range(c) =>
                      Backfill(transactions, c2) = Backfill(transactions, c)
            /\ \A k \in DOMAIN c :
                  \E i \in DOMAIN transactions :
                      /\ DocName(transactions[i].idx) = c[k].doc_name
                      /\ Backfill(transactions, c)[i].bank_transaction = c[k].doc_name

\* C7: once refresh has run, a non-blank folder and a file are never both
\* set, and the file field is read-only exactly when the folder is non-blank.
C7_FolderAndFileExclusive ==
    refreshed =>
        /\ ~(NonBlank(camt53_folder) /\ camt53_file # "")
        /\ (file_read_only = 1) <=> NonBlank(camt53_folder)

\* C7 witness: the folder handler ran on a non-blank folder; the file field is
\* empty and read-only.
C7_Witness ==
    /\ refreshed
    /\ handler = "camt53_folder"
    /\ NonBlank(camt53_folder)
    /\ camt53_file = ""
    /\ file_read_only = 1

\* C8: a click on 'Preview Transactions' sends at most one request: to
\* process_folder_files with the folder when the folder is non-blank, else to
\* process_camt53_file with the file when a file is set, else none, with an
\* error message and the form unchanged.
C8_PreviewChoosesOneSource ==
    [][PreviewClicked =>
        /\ IF called' = NoCall THEN pending' = pending
           ELSE /\ Len(pending') = Len(pending) + 1
                /\ SubSeq(pending', 1, Len(pending)) = pending
                /\ pending'[Len(pending')].method = called'.method
        /\ NonBlank(camt53_folder) =>
              /\ called'.method \in {"none", "process_folder_files"}
              /\ called' # NoCall => called'.args.folder_path = camt53_folder
        /\ (~NonBlank(camt53_folder) /\ camt53_file # "") =>
              /\ called'.method \in {"none", "process_camt53_file"}
              /\ called' # NoCall => called'.args.file_url = camt53_file
        /\ (~NonBlank(camt53_folder) /\ camt53_file = "") =>
              /\ called' = NoCall
              /\ msgprint'.title = "Error"
              /\ doc' = doc
      ]_vars

\* C8 witness: with a folder of blanks and a file attached, the click asked
\* for the file.
C8_Witness ==
    /\ handler = "Preview Transactions"
    /\ camt53_folder = <<" ">>
    /\ camt53_file # ""
    /\ called.method = "process_camt53_file"

\* The row the table must hold at position i after loading entry d.
LoadedRow(row, d, i) ==
    /\ row.idx = i
    /\ row.date = d.date
    /\ row.deposit = d.deposit
    /\ row.withdrawal = d.withdrawal
    /\ row.description = d.description
    /\ row.reference_number = d.reference_number
    /\ row.currency = d.currency
    /\ row.bank_transaction = d.bank_transaction
    /\ IF d.party_type # "" /\ d.party # ""
       THEN row.party_type = d.party_type /\ row.party = d.party
       ELSE row.party_type = "" /\ row.party = ""
    /\ row.checked = IF d.bank_transaction = "" THEN 1 ELSE 0

\* C9: after a preview response is loaded the table holds exactly the
\* response's entries, in order, with their fields copied, whatever the table
\* held before; party_type and party are copied only when both are given.
C9_TableIsTheResponse ==
    [][handler' = "populate_transaction_table" =>
          /\ Len(transactions') = Len(loaded'.transactions)
          /\ \A i \in DOMAIN loaded'.transactions :
                LoadedRow(transactions'[i], loaded'.transactions[i], i)
      ]_vars

\* C9 witness: a preview was loaded whose first entry gives a party without a
\* party type; the row has neither.
C9_Witness ==
    /\ handler = "populate_transaction_table"
    /\ Len(transactions) = 2
    /\ transactions[1].description = TxnC.description
    /\ transactions[1].party = "" /\ transactions[1].party_type = ""
    /\ transactions[2].description = TxnE.description
    /\ transactions[2].party = TxnE.party /\ transactions[2].party_type = TxnE.party_type

\* C10: after the create callback has handled a result no row is checked; a
\* click on 'Create Bank Transactions' with no row checked sends nothing; a
\* callback without result leaves the table as it is.
C10_CommitUnchecksAll ==
    [][/\ handler' = "create_bank_transactions.callback" =>
             \A i \in DOMAIN transactions' : transactions'[i].checked = 0
       /\ (CheckedAt(transactions) = {} /\ CreateClicked) =>
             called' = NoCall /\ pending' = pending
       /\ (Len(pending') < Len(pending) /\ handler' = "none") =>
             transactions' = transactions
      ]_vars

\* C10 witness: a click that found nothing selected, in a table that holds a
\* link written by a create callback.
C10_Witness ==
    /\ handler = "Create Bank Transactions"
    /\ called = NoCall
    /\ msgprint.title = "Message"
    /\ \E i \in DOMAIN transactions :
          transactions[i].bank_transaction \in Range(DocNames)

\* C11: a click on 'Create Bank Transactions' with no row checked sends
\* nothing and leaves the form as it is; the transactions of a request that is
\* sent are the rows checked at the click, each as it stands in the table, in
\* table order, none twice and none left out.
C11_RequestIsTheSelection ==
    [][CreateClicked =>
        /\ CheckedAt(transactions) = {} =>
              /\ called' = NoCall
              /\ pending' = pending
              /\ doc' = doc
        /\ called' # NoCall =>
              /\ called'.method = "create_bank_transactions"
              /\ Len(called'.args.transactions) = Cardinality(CheckedAt(transactions))
              /\ \A k \in DOMAIN called'.args.transactions :
                    /\ called'.args.transactions[k].idx \in CheckedAt(transactions)
                    /\ called'.args.transactions[k] =
                           transactions[called'.args.transactions[k].idx]
              /\ \A k, l \in DOMAIN called'.args.transactions :
                    k < l => called'.args.transactions[k].idx < called'.args.transactions[l].idx
      ]_vars

\* C11 witness: a request was sent for both rows of a two-row table.
C11_Witness ==
    /\ handler = "Create Bank Transactions"
    /\ called.method = "create_bank_transactions"
    /\ Len(called.args.transactions) = 2
    /\ called.args.transactions[1].idx = 1
    /\ called.args.transactions[2].idx = 2

\* The table rows (by idx) sent with outstanding create request j, as far as
\* they are still rows of the table.
RowsInFlight(j) ==
    IF pending[j].method = "create_bank_transactions" /\ pending[j].in_table
    THEN { pending[j].sent[n].idx : n \in DOMAIN pending[j].sent }
    ELSE {}

\* C12: no row of the table is in two create_bank_transactions requests that
\* are outstanding at the same time.
C12_NoRowInTwoRequests ==
    \A j, k \in DOMAIN pending :
        j < k => RowsInFlight(j) \cap RowsInFlight(k) = {}

\* C13: the callback of a create request changes the bank_transaction only
\* of rows that were sent with that request and are still rows of the table.
C13_LinkOnlyToSentRow ==
    [][\A k \in DOMAIN pending :
          (/\ pending[k].method = "create_bank_transactions"
           /\ \E c \in CreatedDocs(pending[k].sent) : CreateCallback(k, c)) =>
              \A i \in DOMAIN transactions :
                  transactions'[i].bank_transaction # transactions[i].bank_transaction =>
                      i \in RowsInFlight(k)
      ]_vars

\* C14 (as claimed): the bank_account of a create request is the account
\* detected by the preview that loaded the table.
C14_AccountIsThatOfTheTable ==
    called.method = "create_bank_transactions" =>
        called.args.bank_account = loaded.bank_account

\* C14 (amended): a preview response that carries a bank_account sets the
\* form's bank_account to it, one without leaves the form's bank_account as it
\* was; a create request sends the form's bank_account as it stands at the click.
C14_AccountSetOnlyWhenDetected ==
    [][/\ handler' = "populate_transaction_table" =>
             /\ loaded'.bank_account # "" => bank_account' = loaded'.bank_account
             /\ loaded'.bank_account = "" => bank_account' = bank_account
       /\ (CreateClicked /\ called' # NoCall) =>
             called'.args.bank_account = bank_account
      ]_vars

\* C14 witness: a create request was sent with an account although the preview
\* that loaded the table detected none.
C14_Witness ==
    /\ called.method = "create_bank_transactions"
    /\ called.args.bank_account # ""
    /\ loaded.bank_account = ""
    /\ loaded.transactions # <<>>

\* No preview request is outstanding.
NoPreviewOutstanding(reqs) ==
    \A j \in DOMAIN reqs : reqs[j].method = "create_bank_transactions"

\* C15: once the responses of all outstanding previews have been handled the
\* table shows the rows of the most recently requested one: the response loaded
\* last is never that of a request overtaken by a later request's response.
C15_LastRequestedPreviewShown ==
    [][\A k \in DOMAIN pending, r \in PreviewResponses :
           (PreviewCallback(k, r) /\ NoPreviewOutstanding(pending')) =>
               ~pending[k].overtaken
      ]_vars

====
